---- MODULE Spec2Model ----
(***************************************************************************)
(* A model of scripts/batch_generator.py: the BatchGenerator that turns a  *)
(* table of per-entity records into fixed-shape batches.                   *)
(*                                                                         *)
(* Indices are 0-based as in the source: the table's rows are              *)
(* 0..data_size-1, the batch slots are 0..batch_size-1, the steps of a     *)
(* batch are 0..num_unrollings-1.  Python lists built with append          *)
(* (x_batch, y_batch, attribs) are sequences, so step t is element t+1.    *)
(*                                                                         *)
(* The table is modelled as the columns the generator reads: the key       *)
(* column (keys), the target column (yvals), the optional 'date' column    *)
(* and the num_cols columns after the target column (NumInputs of them or  *)
(* more).                                                                  *)
(***************************************************************************)
EXTENDS Integers, Sequences, FiniteSets, TLC

\* ---------------------------------------------------------------- bounds
MaxSize == 5
MaxBatch == 2
MaxUnroll == 3
MaxCalls == 3
NumInputs == 2
MaxExtra == 1

\* ------------------------------------------------------------- constants
_NUM_CLASSES == 2

\* Python's None (also: an attribute that has not been assigned yet).
None == 0 - 1

VARIABLES
  \* the table and the constructor's arguments
  data_size,        \* self._data_size = len(data)
  keys,             \* data.loc[i, key_name], i in 0..data_size-1
  yvals,            \* data.loc[i, yval_name], +1 or -1
  has_date,         \* 'date' in list(data.columns.values)
  num_cols,         \* the number of columns after the target column
  batch_size,       \* self._batch_size
  num_unrollings,   \* self._num_unrollings
  \* the generator's fields
  init_cursor,      \* self._init_cursor
  cursor,           \* self._cursor (<< >> until line 149 assigns it)
  num_batches,      \* self._num_batches (None until line 150 assigns it)
  \* the position of the constructor and its locals
  pc,               \* "align" (140-148), "init_done" (149), "calc" (164-166), "ready"
  b_loop,           \* b of the loop at line 140
  idx,              \* idx of the loop at line 140
  key,              \* key of the loop at line 140
  tmp_cursor,       \* tmp_cursor of _calc_num_batches
  end_idx,          \* end_idx of _calc_num_batches
  nb,               \* the local num_batches of _calc_num_batches
  \* what the last next_batch() call returned and observed
  batch,            \* the Batch returned by the last next_batch() (None before)
  pre_cursor,       \* self._cursor when that call started
  rows,             \* rows[t+1][b]: the table row emitted at step t, slot b, or None
  \* the history of calls
  calls,            \* next_batch() calls since construction or the last rewind()
  rewound,          \* rewind() has been called since construction
  first_run,        \* the Batches of the calls made before the first rewind()
  prev_lens,        \* seq_lengths of the call just before the last one (<< >> if none)
  trail,            \* trail[b]: the last rows slot b emitted since the run began
  seen,             \* seen[b]: the set of rows slot b emitted since the run began
  error             \* the exception the last operation raised ("" if none)

vars == << data_size, keys, yvals, has_date, num_cols, batch_size, num_unrollings,
           init_cursor, cursor, num_batches, pc, b_loop, idx, key,
           tmp_cursor, end_idx, nb, batch, pre_cursor, rows,
           calls, rewound, first_run, prev_lens, trail, seen, error >>

\* ------------------------------------------------------------ the table
Abs(v) == IF v < 0 THEN 0 - v ELSE v

SetMax(S) == CHOOSE m \in S : \A x \in S : x <= m

\* Key columns of n rows, up to renaming of the entity ids (the code only
\* compares ids for equality): row 0 has id 1 and every row has an id seen
\* before or the next fresh one.
KeyColumns(n) ==
  { k \in [0..(n-1) -> 1..n] :
      /\ k[0] = 1
      /\ \A i \in 1..(n-1) : k[i] <= SetMax({ k[j] : j \in 0..(i-1) }) + 1 }

\* Target columns: +1 and -1 alternate, starting with either.  The code
\* reads the target column and the 'date' column independently of each
\* other (lines 202-204 and 205-208), so the two choices are enumerated
\* together: tables with a 'date' column start with +1, the others with -1.
YvalColumns(n, dated) ==
  { [ i \in 0..(n-1) |-> IF (i + p) % 2 = 0 THEN 1 ELSE 0 - 1 ] :
      p \in IF dated THEN {0} ELSE {1} }

\* The value of row i in the j-th column after the target column.
Cell(i, j) == 10 * (i + 1) + j

\* line 201: data.iloc[i, start_idx:], every column after the target column
\* of row i.
FeatureRow(i) == [ j \in 0..(num_cols - 1) |-> Cell(i, j) ]

\* line 201: x[b,:] has num_inputs entries (line 184); numpy assigns a row
\* of as many values (a row of one value, which it would broadcast, does
\* not arise: num_cols >= NumInputs >= 2) and raises ValueError otherwise.
RowFits == num_cols = NumInputs

\* data.loc[i, 'date']
DateOf(i) == 100 + i

Slots == 0..(batch_size - 1)

\* ------------------------------------------------------------- __init__
\* line 136
Segment == data_size \div batch_size

\* line 137
InitOffsets == [ offset \in 0..(batch_size - 1) |-> offset * Segment ]

\* (mutant) the scan stops at once on an offset that opens an entity
ScanContinues_StopsOnStart ==
  keys[idx] = key /\ ~(idx = 0 \/ keys[idx - 1] /= keys[idx])

\* (mutant) slot 0, whose scan result is dropped, is not scanned
ScanContinues_NotSlotZero == b_loop > 0 /\ keys[idx] = key

\* line 143: the loop condition of the alignment scan
ScanContinues == keys[idx] = key

\* line 146
ScanAdvance(i) == (i + 1) % data_size

\* (mutant) the scan's result is not stored
AlignedCursor_NotStored == init_cursor

\* (mutant) the aligned index is stored one too far
AlignedCursor_OneTooFar ==
  IF b_loop > 0 THEN [init_cursor EXCEPT ![b_loop] = idx + 1] ELSE init_cursor

\* lines 147-148
AlignedCursor == IF b_loop > 0 THEN [init_cursor EXCEPT ![b_loop] = idx] ELSE init_cursor

Init ==
  /\ data_size \in 1..MaxSize
  /\ keys \in KeyColumns(data_size)
  /\ has_date \in BOOLEAN
  /\ num_cols \in NumInputs..(NumInputs + MaxExtra)
  /\ yvals \in YvalColumns(data_size, has_date)
  /\ batch_size \in 1..MaxBatch
  /\ num_unrollings \in 1..MaxUnroll
  /\ init_cursor = InitOffsets
  /\ cursor = << >>
  /\ num_batches = None
  /\ pc = "align"
  /\ b_loop = 0
  /\ idx = InitOffsets[0]
  /\ key = keys[InitOffsets[0]]
  /\ tmp_cursor = << >>
  /\ end_idx = None
  /\ nb = 0
  /\ batch = None
  /\ pre_cursor = << >>
  /\ rows = << >>
  /\ calls = 0
  /\ rewound = FALSE
  /\ first_run = << >>
  /\ prev_lens = << >>
  /\ trail = << >>
  /\ seen = << >>
  /\ error = ""

DataVars == << data_size, keys, yvals, has_date, num_cols, batch_size, num_unrollings >>
CallVars == << batch, pre_cursor, rows, calls, rewound, first_run, prev_lens, trail,
              seen, error >>

\* lines 143-146: one iteration of the while loop
AlignScan ==
  /\ pc = "align"
  /\ ScanContinues
  /\ idx' = ScanAdvance(idx)
  /\ UNCHANGED << DataVars, init_cursor, cursor, num_batches, pc, b_loop, key,
                  tmp_cursor, end_idx, nb, CallVars >>

\* lines 147-148 and the next iteration's lines 140-142: the scan of slot
\* b_loop has stopped and another slot is left
AlignNext ==
  /\ pc = "align"
  /\ ~ScanContinues
  /\ b_loop + 1 < batch_size
  /\ init_cursor' = AlignedCursor
  /\ b_loop' = b_loop + 1
  /\ idx' = init_cursor'[b_loop + 1]
  /\ key' = keys[init_cursor'[b_loop + 1]]
  /\ UNCHANGED << DataVars, cursor, num_batches, pc, tmp_cursor, end_idx, nb, CallVars >>

\* lines 147-148 for the last slot: the for loop ends
AlignDone ==
  /\ pc = "align"
  /\ ~ScanContinues
  /\ b_loop + 1 >= batch_size
  /\ init_cursor' = AlignedCursor
  /\ pc' = "init_done"
  /\ UNCHANGED << DataVars, cursor, num_batches, b_loop, idx, key,
                  tmp_cursor, end_idx, nb, CallVars >>

\* ------------------------------------------------------ _get_reset_flags
\* (mutant) row 0 is not taken as the start of an entity
AtEntityStart_NotRowZero(i) == i > 0 /\ keys[i] /= keys[i - 1]

\* line 176: the condition under which a slot's flag is cleared
AtEntityStart(i) == i = 0 \/ keys[i] /= keys[i - 1]

\* lines 173-178
GetResetFlags(cur) == [ b \in Slots |-> IF AtEntityStart(cur[b]) THEN 0 ELSE 1 ]

\* ------------------------------------------------------------ _next_step
\* line 193
PrevIdx(i) == IF i > 0 THEN i - 1 ELSE data_size - 1

\* (mutant) the boundary test is made at step 0 too
Padded_AtEveryStep(step, i) == keys[PrevIdx(i)] /= keys[i]

\* (mutant) the boundary test starts one step late
Padded_FromStepTwo(step, i) == step > 1 /\ keys[PrevIdx(i)] /= keys[i]

\* line 194: the slot pads this step instead of emitting a row
Padded(step, i) == step > 0 /\ keys[PrevIdx(i)] /= keys[i]

\* (mutant) every padded step writes the length
ShortenedLength_Overwritten(step, len) == step

\* lines 197-198
ShortenedLength(step, len) == IF len = num_unrollings THEN step ELSE len

\* line 209
AdvanceCursor(c) == (c + 1) % data_size

\* (mutant) the two class weights are exchanged
TargetRow_Swapped(i) ==
  [ c \in 0..(_NUM_CLASSES - 1) |->
      IF c = 0 THEN Abs(yvals[i] + 1) \div 2 ELSE Abs(yvals[i] - 1) \div 2 ]

\* lines 202-204: the one-hot target of row i
TargetRow(i) ==
  [ c \in 0..(_NUM_CLASSES - 1) |->
      IF c = 0 THEN Abs(yvals[i] - 1) \div 2 ELSE Abs(yvals[i] + 1) \div 2 ]

\* lines 205-208
AttrOf(i) == IF has_date THEN DateOf(i) ELSE None

\* lines 184-185: np.zeros
ZeroRow(n) == [ j \in 0..(n - 1) |-> 0 ]

\* (mutant) the cursor moves on also when the step pads
CursorAfter_AlwaysAdvance(step, c) == AdvanceCursor(c)

\* lines 194-209: the slot's cursor after the step: frozen when the step
\* pads, advanced when it emits
CursorAfter(step, c) == IF Padded(step, c) THEN c ELSE AdvanceCursor(c)

\* lines 191-210: one step of every slot.  A slot reads and writes only its
\* own cursor and length, so the loop over b is a function of b.  "rows"
\* records the idx of line 192 for the cells that emit a row.
NextStep(cur, step, seq_lengths) ==
  [ x |-> [ b \in Slots |->
            IF Padded(step, cur[b]) THEN ZeroRow(NumInputs) ELSE FeatureRow(cur[b]) ],
    y |-> [ b \in Slots |->
            IF Padded(step, cur[b]) THEN ZeroRow(_NUM_CLASSES) ELSE TargetRow(cur[b]) ],
    attr |-> [ b \in Slots |->
            IF Padded(step, cur[b]) THEN None ELSE AttrOf(cur[b]) ],
    seq_lengths |-> [ b \in Slots |->
            IF Padded(step, cur[b]) THEN ShortenedLength(step, seq_lengths[b])
            ELSE seq_lengths[b] ],
    cursor |-> [ b \in Slots |-> CursorAfter(step, cur[b]) ],
    rows |-> [ b \in Slots |-> IF Padded(step, cur[b]) THEN None ELSE cur[b] ] ]

\* ------------------------------------------------------------ next_batch
\* lines 222-226: the steps i, i+1, ... of the loop, from the state acc
RECURSIVE UnrollFrom(_, _)
UnrollFrom(i, acc) ==
  IF i >= num_unrollings THEN acc
  ELSE LET s == NextStep(acc.cursor, i, acc.seq_lengths)
       IN UnrollFrom(i + 1,
            [ cursor |-> s.cursor,
              seq_lengths |-> s.seq_lengths,
              x_batch |-> Append(acc.x_batch, s.x),
              y_batch |-> Append(acc.y_batch, s.y),
              attribs |-> Append(acc.attribs, s.attr),
              rows |-> Append(acc.rows, s.rows) ])

\* (mutant) the reset flags are computed after the steps have moved the cursor
NextBatch_FlagsAfterSteps(cur) ==
  LET r == UnrollFrom(0, [ cursor |-> cur,
                           seq_lengths |-> [ b \in Slots |-> num_unrollings ],
                           x_batch |-> << >>, y_batch |-> << >>,
                           attribs |-> << >>, rows |-> << >> ])
  IN [ cursor |-> r.cursor,
       rows |-> r.rows,
       batch |-> [ inputs |-> r.x_batch,
                   targets |-> r.y_batch,
                   seq_lengths |-> r.seq_lengths,
                   reset_flags |-> GetResetFlags(r.cursor),
                   attribs |-> r.attribs ] ]

\* lines 217-227: the cursor after the call, the Batch returned and the rows
\* it emitted, from the cursor cur
NextBatch(cur) ==
  LET reset_flags == GetResetFlags(cur)
      r == UnrollFrom(0, [ cursor |-> cur,
                           seq_lengths |-> [ b \in Slots |-> num_unrollings ],
                           x_batch |-> << >>, y_batch |-> << >>,
                           attribs |-> << >>, rows |-> << >> ])
  IN [ cursor |-> r.cursor,
       rows |-> r.rows,
       batch |-> [ inputs |-> r.x_batch,
                   targets |-> r.y_batch,
                   seq_lengths |-> r.seq_lengths,
                   reset_flags |-> reset_flags,
                   attribs |-> r.attribs ] ]

\* ---------------------------------------------------------------- rewind
\* (mutant) rewind() goes back to the evenly spaced offsets of line 137
RewindCursor_Offsets == InitOffsets

\* line 233
RewindCursor == init_cursor

\* ------------------------------------------------------ the call history
\* The rows one slot emitted in a call, in step order.
RECURSIVE EmittedBy(_, _, _)
EmittedBy(rs, b, t) ==
  IF t > Len(rs) THEN << >>
  ELSE IF rs[t][b] = None THEN EmittedBy(rs, b, t + 1)
       ELSE << rs[t][b] >> \o EmittedBy(rs, b, t + 1)

\* The trail keeps the last TrailLen rows of a slot.
TrailLen == 2 * MaxUnroll + 1

LastOf(s, n) == IF Len(s) <= n THEN s ELSE SubSeq(s, Len(s) - n + 1, Len(s))

\* The history after a next_batch() call that returned r.
Recorded(r) ==
  /\ batch' = r.batch
  /\ pre_cursor' = cursor
  /\ rows' = r.rows
  /\ calls' = IF calls <= MaxCalls THEN calls + 1 ELSE calls
  /\ prev_lens' = IF calls >= 1 THEN batch.seq_lengths ELSE << >>
  /\ trail' = [ b \in Slots |-> LastOf(trail[b] \o EmittedBy(r.rows, b, 1), TrailLen) ]
  /\ seen' = [ b \in Slots |->
               seen[b] \cup ({ r.rows[t][b] : t \in 1..Len(r.rows) } \ { None }) ]
  /\ error' = ""

\* A run of calls begins: after construction's probing and after rewind().
RunBegins ==
  /\ calls' = 0
  /\ prev_lens' = << >>
  /\ trail' = [ b \in Slots |-> << >> ]
  /\ seen' = [ b \in Slots |-> {} ]
  /\ error' = ""

\* ----------------------------------------------------- _calc_num_batches
\* line 162
EndIdx == IF batch_size > 1 THEN init_cursor[1] ELSE data_size - 1

\* line 164: the loop condition
ProbeContinues == cursor[0] < end_idx - num_unrollings

\* (mutant) the probing leaves the live cursor where it stopped
RestoredCursor_NotRestored == cursor

\* line 167
RestoredCursor == tmp_cursor

\* lines 149 and 160-163: the live cursor is created, saved and rewound
CalcBegin ==
  /\ pc = "init_done"
  /\ tmp_cursor' = init_cursor
  /\ cursor' = RewindCursor
  /\ end_idx' = EndIdx
  /\ nb' = 0
  /\ pc' = "calc"
  /\ RunBegins
  /\ UNCHANGED << DataVars, init_cursor, num_batches, b_loop, idx, key,
                  batch, pre_cursor, rows, rewound, first_run >>

\* lines 164-166: one iteration of the probing loop
CalcStep ==
  /\ pc = "calc"
  /\ ProbeContinues
  /\ RowFits
  /\ LET r == NextBatch(cursor)
     IN /\ cursor' = r.cursor
        /\ Recorded(r)
  /\ nb' = nb + 1
  /\ UNCHANGED << DataVars, init_cursor, num_batches, pc, b_loop, idx, key,
                  tmp_cursor, end_idx, rewound, first_run >>

\* lines 164-165 with line 201 raising: the first next_batch() of the
\* probing raises ValueError at step 0, slot 0, the constructor does not
\* catch it and no generator is returned
CalcRaise ==
  /\ pc = "calc"
  /\ ProbeContinues
  /\ ~RowFits
  /\ pc' = "failed"
  /\ error' = "ValueError"
  /\ UNCHANGED << DataVars, init_cursor, cursor, num_batches, b_loop, idx, key,
                  tmp_cursor, end_idx, nb, batch, pre_cursor, rows, calls,
                  rewound, first_run, prev_lens, trail, seen >>

\* lines 167-168 and 150: the cursor is restored and the count is cached
CalcReturn ==
  /\ pc = "calc"
  /\ ~ProbeContinues
  /\ cursor' = RestoredCursor
  /\ num_batches' = nb
  /\ pc' = "ready"
  /\ RunBegins
  /\ UNCHANGED << DataVars, init_cursor, b_loop, idx, key, tmp_cursor, end_idx, nb,
                  batch, pre_cursor, rows, rewound, first_run >>

\* ------------------------------------------------- the public operations
\* lines 212-227, called on the constructed generator
NextBatchCall ==
  /\ pc = "ready"
  /\ RowFits
  /\ LET r == NextBatch(cursor)
     IN /\ cursor' = r.cursor
        /\ Recorded(r)
        /\ first_run' = IF ~rewound /\ calls < MaxCalls
                        THEN Append(first_run, r.batch) ELSE first_run
  /\ UNCHANGED << DataVars, init_cursor, num_batches, pc, b_loop, idx, key,
                  tmp_cursor, end_idx, nb, rewound >>

\* lines 212-223 with line 201 raising: step 0 of slot 0 raises ValueError
\* before any cursor is moved (line 209) and no Batch is returned
NextBatchRaise ==
  /\ pc = "ready"
  /\ ~RowFits
  /\ error' = "ValueError"
  /\ UNCHANGED << DataVars, init_cursor, cursor, num_batches, pc, b_loop, idx, key,
                  tmp_cursor, end_idx, nb, batch, pre_cursor, rows, calls,
                  rewound, first_run, prev_lens, trail, seen >>

\* lines 232-233
Rewind ==
  /\ pc = "ready"
  /\ cursor' = RewindCursor
  /\ rewound' = TRUE
  /\ RunBegins
  /\ UNCHANGED << DataVars, init_cursor, num_batches, pc, b_loop, idx, key,
                  tmp_cursor, end_idx, nb, batch, pre_cursor, rows, first_run >>

Next ==
  \/ AlignScan
  \/ AlignNext
  \/ AlignDone
  \/ CalcBegin
  \/ CalcStep
  \/ CalcRaise
  \/ CalcReturn
  \/ NextBatchCall
  \/ NextBatchRaise
  \/ Rewind

Spec == Init /\ [][Next]_vars

\* The constructor's alignment scan alone.  The constructor runs to its
\* end without interruption, so a step of it that can be taken is taken.
AlignStep == AlignScan \/ AlignNext \/ AlignDone

AlignSpec == Init /\ [][AlignStep]_vars /\ WF_vars(AlignStep)

\* The constructor followed by next_batch() called forever, with no
\* rewind().  The constructor runs to its end and a caller that loops on
\* next_batch() makes the next call whenever one can be made; the two are
\* never enabled together, so one fairness condition covers both.  The
\* unrolling is kept below MaxUnroll.
ConstructStep == AlignStep \/ CalcBegin \/ CalcStep \/ CalcRaise \/ CalcReturn

NextBatchAny == NextBatchCall \/ NextBatchRaise

LiveNext == ConstructStep \/ NextBatchAny

LiveInit == Init /\ num_unrollings < MaxUnroll

LiveSpec == LiveInit /\ [][LiveNext]_vars /\ WF_vars(LiveNext)

\* ------------------------------------------------------------ properties
Constructed == pc = "ready"
CursorLive == pc \in {"calc", "ready"}
Called == Len(rows) > 0
EntityIds == { keys[i] : i \in 0..(data_size - 1) }

\* The row k places after row c, cyclically.
RowAfter(c, k) == (c + k) % data_size

\* Row i opens an entity: it is row 0 or its id differs from row i-1's.
OpensEntity(i) == i = 0 \/ keys[i - 1] /= keys[i]

\* C1: once the live cursor exists, every slot's cursor[b] is an index of
\* the table, 0 <= cursor[b] < data_size, after any sequence of next_batch()
\* and rewind() calls (and during the constructor's probing).
C1_CursorInRange ==
  CursorLive =>
    /\ DOMAIN cursor = Slots
    /\ \A b \in Slots : 0 <= cursor[b] /\ cursor[b] < data_size

\* A call, made after a rewind(), in which a slot's cursor wrapped past the
\* last row.
C1_Witness ==
  /\ Constructed /\ rewound /\ calls >= 1
  /\ \E b \in Slots : cursor[b] < pre_cursor[b]

\* C2: the k-th next_batch() after a rewind() returns the Batch that the
\* k-th next_batch() after construction returned (inputs, targets,
\* seq_lengths, reset_flags and attribs all equal).
C2_RewindReplays ==
  (Constructed /\ rewound /\ calls >= 1 /\ calls <= Len(first_run))
    => batch = first_run[calls]

\* The third call after a rewind() replays the third call after
\* construction, and the three Batches of the run differ from one another.
C2_Witness ==
  /\ Constructed /\ rewound /\ calls = 3 /\ Len(first_run) = 3
  /\ batch = first_run[3]
  /\ first_run[1] /= first_run[2]
  /\ first_run[2] /= first_run[3]
  /\ first_run[1] /= first_run[3]

\* C3: within a run of consecutive next_batch() calls the rows a slot emits
\* (padding left out) are consecutive table rows modulo data_size, across
\* the calls; and the first row a call emits for a slot is the row the slot's
\* cursor was on before the call.
C3_NoSkipNoDuplicate ==
  (CursorLive /\ calls >= 1) =>
    \A b \in Slots :
      /\ \A i \in 1..(Len(trail[b]) - 1) : trail[b][i + 1] = RowAfter(trail[b][i], 1)
      /\ EmittedBy(rows, b, 1) /= << >>
      /\ EmittedBy(rows, b, 1)[1] = pre_cursor[b]
      /\ cursor[b] = RowAfter(trail[b][Len(trail[b])], 1)

\* The call before the last one was cut short at an entity boundary, and
\* the slot's rows wrapped from the last row of the table to row 0.
C3_Witness ==
  /\ Constructed /\ calls >= 2
  /\ \E b \in Slots :
       /\ prev_lens[b] < num_unrollings
       /\ Len(trail[b]) >= 3
       /\ \E i \in 1..(Len(trail[b]) - 1) : trail[b][i + 1] < trail[b][i]

\* C4: in every Batch, the rows of one slot at the steps below its
\* seq_lengths are real rows that all carry the same entity id.
C4_OneEntityPerSequence ==
  Called =>
    \A b \in Slots :
      \A t1, t2 \in 0..(batch.seq_lengths[b] - 1) :
        /\ rows[t1 + 1][b] /= None
        /\ rows[t2 + 1][b] /= None
        /\ keys[rows[t1 + 1][b]] = keys[rows[t2 + 1][b]]

\* A Batch in which one slot's sequence has two rows or more and stops at
\* an entity boundary before the window is full.
C4_Witness ==
  /\ Called
  /\ \E b \in Slots :
       /\ batch.seq_lengths[b] >= 2
       /\ batch.seq_lengths[b] < num_unrollings
       /\ keys[cursor[b]] /= keys[pre_cursor[b]]

\* Every entry of a row is zero.
AllZero(row) == \A j \in DOMAIN row : row[j] = 0

\* From row c on, the rows at steps 0..t-1 carry one entity id.
SameEntityUpTo(c, t) == \A s \in 1..(t - 1) : keys[RowAfter(c, s - 1)] = keys[RowAfter(c, s)]

\* Step t is the first step at which the row under the cursor carries another
\* id than the row just before it, for a slot whose cursor began the call at c.
FirstBoundaryAt(c, t) ==
  /\ SameEntityUpTo(c, t)
  /\ keys[RowAfter(c, t - 1)] /= keys[RowAfter(c, t)]

\* C5: if a slot first meets an entity boundary at step t, 0 < t <
\* num_unrollings, the Batch has seq_lengths[b] = t and the slot's input and
\* target rows are all-zero at every step from t on.
C5_TruncatedAtFirstBoundary ==
  Called =>
    \A b \in Slots : \A t \in 1..(num_unrollings - 1) :
      FirstBoundaryAt(pre_cursor[b], t) =>
        /\ batch.seq_lengths[b] = t
        /\ \A s \in t..(num_unrollings - 1) :
             /\ AllZero(batch.inputs[s + 1][b])
             /\ AllZero(batch.targets[s + 1][b])

\* A slot met the boundary at step 1 of 3: step 2 pads too and the length
\* stays 1.
C5_Witness ==
  /\ Called /\ num_unrollings = 3
  /\ \E b \in Slots :
       /\ FirstBoundaryAt(pre_cursor[b], 1)
       /\ batch.seq_lengths[b] = 1
       /\ rows[3][b] = None

\* C6: if a slot meets no entity boundary at any step t > 0 of a call, the
\* Batch has seq_lengths[b] = num_unrollings and every step of the slot is
\* the real row of the table, none padded.
C6_FullLengthWithoutBoundary ==
  Called =>
    \A b \in Slots :
      SameEntityUpTo(pre_cursor[b], num_unrollings) =>
        /\ batch.seq_lengths[b] = num_unrollings
        /\ \A t \in 0..(num_unrollings - 1) :
             /\ rows[t + 1][b] = RowAfter(pre_cursor[b], t)
             /\ batch.inputs[t + 1][b] = FeatureRow(RowAfter(pre_cursor[b], t))
             /\ ~AllZero(batch.targets[t + 1][b])

\* The slot's entity begins at the first step of the window and ends exactly
\* at its last step.
C6_Witness ==
  /\ Called /\ num_unrollings >= 2
  /\ \E b \in Slots :
       /\ OpensEntity(pre_cursor[b])
       /\ SameEntityUpTo(pre_cursor[b], num_unrollings)
       /\ keys[RowAfter(pre_cursor[b], num_unrollings - 1)]
            /= keys[RowAfter(pre_cursor[b], num_unrollings)]
       /\ batch.seq_lengths[b] = num_unrollings

\* C7: in every Batch, reset_flags[b] is 0 if the slot's cursor at the start
\* of the call is row 0 or a row whose id differs from the id of the row
\* before it, and 1 otherwise.
C7_ResetFlagsFromStartCursor ==
  Called =>
    \A b \in Slots :
      batch.reset_flags[b] = IF OpensEntity(pre_cursor[b]) THEN 0 ELSE 1

\* A Batch with both flags, whose flags differ from what the cursor after
\* the call would give.
C7_Witness ==
  /\ Constructed /\ calls >= 1
  /\ \E b1, b2 \in Slots :
       /\ batch.reset_flags[b1] = 0 /\ ~OpensEntity(cursor[b1])
       /\ batch.reset_flags[b2] = 1 /\ OpensEntity(cursor[b2])

\* C8: after a call that returned seq_lengths[b] < num_unrollings, the slot's
\* cursor is on the row after the last row it emitted, and that row carries
\* another entity id; the call that follows immediately reports
\* reset_flags[b] = 0 and emits that row at step 0.
C8_ResumesAtBoundary ==
  (CursorLive /\ calls >= 1) =>
    \A b \in Slots :
      /\ batch.seq_lengths[b] < num_unrollings =>
           /\ cursor[b] = RowAfter(pre_cursor[b], batch.seq_lengths[b])
           /\ keys[cursor[b]] /= keys[RowAfter(pre_cursor[b], batch.seq_lengths[b] - 1)]
      /\ (calls >= 2 /\ prev_lens[b] < num_unrollings) =>
           /\ batch.reset_flags[b] = 0
           /\ OpensEntity(pre_cursor[b])
           /\ rows[1][b] = pre_cursor[b]
           /\ batch.inputs[1][b] = FeatureRow(pre_cursor[b])
           /\ batch.targets[1][b] = TargetRow(pre_cursor[b])

\* The example of the specification: entities A (3 rows) and B (2 rows),
\* batch_size 1, num_unrollings 2; the second call returned length 1 and
\* the third call starts on B's first row with reset flag 0.
C8_Witness ==
  /\ Constructed /\ calls = 3
  /\ data_size = 5 /\ batch_size = 1 /\ num_unrollings = 2
  /\ keys = [ i \in 0..4 |-> IF i < 3 THEN 1 ELSE 2 ]
  /\ prev_lens[0] = 1
  /\ pre_cursor[0] = 3
  /\ batch.reset_flags[0] = 0
  /\ rows[1][0] = 3

\* C9: for a table with two entity ids or more, the constructed generator's
\* cached num_batches is strictly greater than 0.
C9_NumBatchesPositive ==
  (Constructed /\ Cardinality(EntityIds) >= 2) => num_batches > 0

\* C10: with two entity ids or more the alignment scan ends for every slot;
\* with a single entity id it never ends, whatever batch_size is, and then
\* neither the live cursor nor num_batches is ever assigned.
C10_ScanEndsIffTwoEntities ==
  /\ (Cardinality(EntityIds) >= 2) => <>(pc /= "align")
  /\ (Cardinality(EntityIds) = 1) =>
       [](pc = "align" /\ b_loop = 0 /\ cursor = << >> /\ num_batches = None)

\* A single-entity table of several rows with batch_size 1: the scan of slot
\* 0 has run to the last row without stopping.
C10_Witness ==
  /\ Cardinality(EntityIds) = 1
  /\ batch_size = 1
  /\ data_size >= 2
  /\ pc = "align"
  /\ idx = data_size - 1

\* A step that is a rewind() call on the constructed generator.
RewindTaken == Constructed /\ rewound' /\ calls' = 0 /\ error' = ""

\* C11: rewind() sets the live cursor to init_cursor and leaves the table,
\* init_cursor, num_batches and the last Batch as they were; a rewind() that
\* follows a rewind() changes nothing; and no step taken on the constructed
\* generator (next_batch() or rewind()) changes init_cursor or num_batches.
C11_RewindFrame ==
  [][ /\ RewindTaken =>
           /\ cursor' = init_cursor
           /\ UNCHANGED << DataVars, init_cursor, num_batches, pc, batch, rows >>
      /\ (RewindTaken /\ rewound /\ calls = 0 /\ error = "") => UNCHANGED vars
      /\ Constructed => (init_cursor' = init_cursor /\ num_batches' = num_batches)
    ]_vars

\* A rewind() has just brought the cursor back to init_cursor from where a
\* next_batch() call on the constructed generator had left it.
C11_Witness ==
  /\ Constructed /\ rewound /\ calls = 0
  /\ Len(first_run) >= 1
  /\ cursor = init_cursor
  /\ \E b \in Slots : RowAfter(pre_cursor[b], batch.seq_lengths[b]) /= init_cursor[b]

\* C12: in every Batch the target row of a cell that emits a table row is
\* [0,1] if the row's label is +1 and [1,0] if it is -1, and the target row
\* of a padded cell is [0,0].
C12_OneHotTargets ==
  Called =>
    \A b \in Slots : \A t \in 1..Len(rows) :
      batch.targets[t][b] =
        IF rows[t][b] = None THEN [ c \in 0..1 |-> 0 ]
        ELSE IF yvals[rows[t][b]] = 1 THEN [ c \in 0..1 |-> IF c = 0 THEN 0 ELSE 1 ]
        ELSE [ c \in 0..1 |-> IF c = 0 THEN 1 ELSE 0 ]

\* One slot's sequence in a Batch holds a row labelled +1, a row labelled -1
\* and a padded step.
C12_Witness ==
  /\ Called
  /\ \E b \in Slots : \E t1, t2, t3 \in 1..Len(rows) :
       /\ rows[t1][b] /= None /\ yvals[rows[t1][b]] = 1
       /\ rows[t2][b] /= None /\ yvals[rows[t2][b]] = 0 - 1
       /\ rows[t3][b] = None

\* C13: on a table with NumInputs columns or more after the target column,
\* no next_batch() call fails, and the input row of every cell that emits
\* table row i is the first NumInputs columns after the target column of
\* row i.
C13_FirstInputsEmitted ==
  /\ error = ""
  /\ Called =>
       \A b \in Slots : \A t \in 1..Len(rows) :
         rows[t][b] /= None =>
           batch.inputs[t][b] = [ j \in 0..(NumInputs - 1) |-> Cell(rows[t][b], j) ]

\* C14: after construction init_cursor[0] is 0 and every init_cursor[b] is
\* the first row of an entity; and the first next_batch() after construction
\* or after a rewind() returns reset_flags[b] = 0 for every slot.
C14_InitCursorAligned ==
  /\ Constructed =>
       /\ init_cursor[0] = 0
       /\ \A b \in Slots : OpensEntity(init_cursor[b])
  /\ (Constructed /\ calls = 1) => \A b \in Slots : batch.reset_flags[b] = 0

\* The first call after a rewind(), with a second slot that the scan moved
\* from its offset to an entity's first row inside the table.
C14_Witness ==
  /\ Constructed /\ rewound /\ calls = 1
  /\ batch_size >= 2
  /\ init_cursor[1] /= InitOffsets[1]
  /\ init_cursor[1] > 0
  /\ \A b \in Slots : batch.reset_flags[b] = 0

\* The first row at or after row i, cyclically, that opens an entity.
RECURSIVE FirstStartFrom(_)
FirstStartFrom(i) == IF OpensEntity(i) THEN i ELSE FirstStartFrom(RowAfter(i, 1))

\* The first row after row o, cyclically, whose id differs from row o's
\* (None if the table has a single id).
FirstOtherIdAfter(o) ==
  LET ks == { k \in 1..(data_size - 1) : keys[RowAfter(o, k)] /= keys[o] }
  IN IF ks = {} THEN None
     ELSE RowAfter(o, CHOOSE k \in ks : \A k2 \in ks : k <= k2)

\* C15 as stated: for every slot b > 0, init_cursor[b] is the first row,
\* scanning from the offset b * (data_size div batch_size) inclusive and
\* wrapping, that opens an entity; an offset that opens one is kept.
C15_FirstStartFromOffset ==
  Constructed =>
    \A b \in Slots : b > 0 => init_cursor[b] = FirstStartFrom(InitOffsets[b])

\* C15 amended: for every slot b > 0, init_cursor[b] is the first row after
\* the offset b * (data_size div batch_size), wrapping, whose entity id
\* differs from the id of the row at the offset.
C15_NextEntityAfterOffset ==
  Constructed =>
    \A b \in Slots : b > 0 => init_cursor[b] = FirstOtherIdAfter(InitOffsets[b])

\* A slot whose offset already opened an entity and was moved on to the
\* first row of the entity after it.
C15_Witness ==
  /\ Constructed
  /\ \E b \in Slots :
       /\ b > 0
       /\ InitOffsets[b] > 0
       /\ OpensEntity(InitOffsets[b])
       /\ init_cursor[b] /= InitOffsets[b]
       /\ OpensEntity(init_cursor[b])

\* C16: the probing of _calc_num_batches leaves the live cursor as it was
\* before the probing: right after construction the live cursor equals the
\* cursor saved before the probing and equals init_cursor.
C16_ProbingRestoresCursor ==
  (Constructed /\ ~rewound /\ calls = 0) =>
    /\ cursor = tmp_cursor
    /\ cursor = init_cursor

\* Right after a construction whose probing called next_batch() twice or
\* more and left the last Batch's cursor elsewhere.
C16_Witness ==
  /\ Constructed /\ ~rewound /\ calls = 0
  /\ num_batches >= 2
  /\ cursor = init_cursor
  /\ \E b \in Slots : RowAfter(pre_cursor[b], batch.seq_lengths[b]) /= cursor[b]

\* C19: every Batch has 1 <= seq_lengths[b] <= num_unrollings, step 0 of
\* every slot emits the row under the cursor, and the call moves the slot's
\* cursor by seq_lengths[b] rows modulo data_size.
C19_LengthIsCursorMove ==
  (CursorLive /\ calls >= 1) =>
    \A b \in Slots :
      /\ 1 <= batch.seq_lengths[b]
      /\ batch.seq_lengths[b] <= num_unrollings
      /\ rows[1][b] = pre_cursor[b]
      /\ cursor[b] = RowAfter(pre_cursor[b], batch.seq_lengths[b])

\* A call that began on an entity's first row, was cut short and wrapped the
\* cursor to row 0.
C19_Witness ==
  /\ Constructed /\ calls >= 1
  /\ \E b \in Slots :
       /\ OpensEntity(pre_cursor[b])
       /\ pre_cursor[b] > 0
       /\ batch.seq_lengths[b] < num_unrollings
       /\ cursor[b] = 0

EveryRowEmitted ==
  Constructed /\ \A b \in Slots : seen[b] = 0..(data_size - 1)

C18_EveryRowAgain == Constructed ~> EveryRowEmitted

====
